---- MODULE Spec2Model ----
(***************************************************************************)
(* Light data of dxvk-remix (src/dxvk/rtx_render/rtx_lights_data.cpp):     *)
(* construction of a LightData record from a USD prim or from a D3DLIGHT9, *)
(* the two merges, the transform extraction and the lowering to RtLight.   *)
(*                                                                         *)
(* Numbers.  Floats are modelled by exact integers and rationals:          *)
(*   - angles in radians are counted in quarter turns (pi/2), so that      *)
(*     180 degrees is 2 and cos() is exact on every value that occurs;     *)
(*   - a normalized direction is a record [n |-> <<x,y,z>>, d |-> len],    *)
(*     the vector n divided by d; input vectors have integer lengths;      *)
(*   - a quotient whose divisor is an input is a rational [n, d]; d = 0    *)
(*     is the result of a float division by zero (NaN or infinity).        *)
(***************************************************************************)
EXTENDS Integers, Sequences, FiniteSets, TLC

VARIABLES
  target,   \* the LightData under study, or NoValue (an empty std::optional)
  out,      \* the RtLight the last toRtLight returned, or NoLight
  opts,     \* the conversion options read by createFromPointSpot/Directional
  hist      \* the last operation: its name, its input, the target before it

vars == <<target, out, opts, hist>>

----------------------------------------------------------------------------
(* Bounds of the model *)

\* authored attribute values range over -1..MaxVal
MaxVal == 3
\* scale factors of the sampled transforms range over 0..MaxScale
MaxScale == 2

----------------------------------------------------------------------------
(* Vectors and numbers *)

Dot(a, b) == a[1] * b[1] + a[2] * b[2] + a[3] * b[3]

Neg(v) == <<0 - v[1], 0 - v[2], 0 - v[3]>>

Scale(k, v) == <<k * v[1], k * v[2], k * v[3]>>

Max(a, b) == IF a < b THEN b ELSE a

\* sqrt of a perfect square (the lengths of the sampled vectors are integers)
Sqrt(n) == CHOOSE r \in 0..n : r * r = n

\* a direction: the vector n divided by d
Dir(n, d) == [n |-> n, d |-> d]

NegDir(a) == [n |-> Neg(a.n), d |-> a.d]

IsUnit(a) == a.d > 0 /\ Dot(a.n, a.n) = a.d * a.d

IsZeroDir(a) == a.n = <<0, 0, 0>>

\* a quotient n / d of two floats, kept with a non-negative denominator
Rat(n, d) == IF d < 0 THEN [n |-> 0 - n, d |-> 0 - d] ELSE [n |-> n, d |-> d]

RatOf(n) == [n |-> n, d |-> 1]

\* lo <= q <= hi for a rational q; false for NaN and the infinities (d = 0)
RatInRange(q, lo, hi) == q.d > 0 /\ lo * q.d <= q.n /\ q.n <= hi * q.d

----------------------------------------------------------------------------
(* The record: LightData *)

\* LIST_LIGHT_CONSTANTS: the named fields m_<name>, one dirty flag k_<name> each
Fields ==
  {"Color", "Intensity", "Exposure", "Radius", "Width", "Height", "Length",
   "AngleRadians", "EnableColorTemp", "ColorTemp", "ConeAngleRadians",
   "ConeSoftness", "Focus"}

\* the fields whose value is a Vector3 of floats
VectorFields == {"Color"}

\* the fields USD stores in degrees
DegreeFields == {"ConeAngleRadians", "AngleRadians"}

\* DirtyFlags: one bit per named field, and k_Transform for the geometry
m_allDirty == Fields \cup {"Transform"}

\* the largest declared maxVal, standing for the finite maxima of the list
DeclaredMax == 2

\* minVal of a field
FieldMin(f) == IF f = "Exposure" THEN 0 - DeclaredMax ELSE 0

\* maxVal of a field
FieldMax(f) == IF f = "EnableColorTemp" THEN 1 ELSE DeclaredMax

\* defaultVal of a field (cone angle: 180 degrees, in radians)
FieldDefault(f) ==
  CASE f = "Color" -> <<RatOf(1), RatOf(1), RatOf(1)>>
    [] f \in {"Intensity", "Radius", "Width", "Height", "Length", "ColorTemp"} -> 1
    [] f = "ConeAngleRadians" -> 2
    [] OTHER -> 0

kEmptyHash == 0

\* LightData(): every field at its default, nothing dirty, identity geometry
DefaultLightData ==
  [f \in Fields |-> FieldDefault(f)] @@
  [m_lightType |-> "Unknown",
   m_dirty |-> {},
   m_position |-> <<0, 0, 0>>,
   m_xAxis |-> Dir(<<1, 0, 0>>, 1),
   m_yAxis |-> Dir(<<0, 1, 0>>, 1),
   m_zAxis |-> Dir(<<0, 0, 1>>, 1),
   m_xScale |-> 1,
   m_yScale |-> 1,
   m_zScale |-> 1,
   m_isRelativeTransform |-> FALSE,
   m_isOverrideLight |-> FALSE,
   m_cachedHash |-> kEmptyHash]

GeometryFields ==
  {"m_position", "m_xAxis", "m_yAxis", "m_zAxis", "m_xScale", "m_yScale", "m_zScale"}

\* std::optional<LightData>
NoValue == [has_value |-> FALSE]

Some(v) == [has_value |-> TRUE, value |-> v]

\* x * kDegreesToRadians, in quarter turns
DegreesPerQuarterTurn == 90

DegToRad(x) == x \div DegreesPerQuarterTurn

\* cos of an angle given in quarter turns
Cos(x) == CASE x % 4 = 0 -> 1 [] x % 4 = 2 -> 0 - 1 [] OTHER -> 0

\* clamp(n, lo, hi) of a float
clamp(n, lo, hi) == IF n < lo THEN lo ELSE IF n > hi THEN hi ELSE n

\* clamp of one component of a Vector3 field
clampRat(q, lo, hi) ==
  IF q.n < lo * q.d THEN RatOf(lo) ELSE IF q.n > hi * q.d THEN RatOf(hi) ELSE q

\* WRITE_CONSTANT_SANITIZATION for one field
SanitizeField(f, v) ==
  IF f \in VectorFields
    THEN [i \in 1..3 |-> clampRat(v[i], FieldMin(f), FieldMax(f))]
    ELSE clamp(v, FieldMin(f), FieldMax(f))

sanitizeData(r) ==
  [k \in DOMAIN r |-> IF k \in Fields THEN SanitizeField(k, r[k]) ELSE r[k]]

\* a field's value lies in its declared [minVal, maxVal]
FieldInRange(f, v) ==
  IF f \in VectorFields
    THEN \A i \in 1..3 : RatInRange(v[i], FieldMin(f), FieldMax(f))
    ELSE FieldMin(f) <= v /\ v <= FieldMax(f)

----------------------------------------------------------------------------
(* The USD prim *)

Schemas == {"SphereLight", "RectLight", "DiskLight", "CylinderLight", "DistantLight", "Xform"}

HexDigits ==
  {"0", "1", "2", "3", "4", "5", "6", "7", "8", "9",
   "A", "B", "C", "D", "E", "F", "a", "b", "c", "d", "e", "f"}

\* the {16} of s_unknownLightPattern
HashDigits == 16


\* MatchesUnknownLightPattern without the end anchor of the pattern
MatchesUnknownLightPattern_NoEnd(path) ==
  /\ path.dirs = <<"RootNode", "lights">>
  /\ path.prefix = "light_"
  /\ Len(path.rest) >= HashDigits
  /\ \A i \in 1..HashDigits : path.rest[i] \in HexDigits

\* std::regex_match(path, s_unknownLightPattern), the path given by its
\* directories, the prefix of the prim's name and the characters after it
MatchesUnknownLightPattern(path) ==
  /\ path.dirs = <<"RootNode", "lights">>
  /\ path.prefix = "light_"
  /\ Len(path.rest) = HashDigits
  /\ \A i \in 1..Len(path.rest) : path.rest[i] \in HexDigits

\* getLightType: the result and typeOut (left as it was when nothing matches)
getLightType(prim, typeIn) ==
  CASE prim.schema = "SphereLight" -> [ok |-> TRUE, typeOut |-> "Sphere"]
    [] prim.schema = "RectLight" -> [ok |-> TRUE, typeOut |-> "Rect"]
    [] prim.schema = "DiskLight" -> [ok |-> TRUE, typeOut |-> "Disk"]
    [] prim.schema = "CylinderLight" -> [ok |-> TRUE, typeOut |-> "Cylinder"]
    [] prim.schema = "DistantLight" -> [ok |-> TRUE, typeOut |-> "Distant"]
    [] OTHER ->
         IF MatchesUnknownLightPattern(prim.path)
           THEN [ok |-> TRUE, typeOut |-> "Unknown"]
           ELSE [ok |-> FALSE, typeOut |-> typeIn]

isSupportedUsdLight(prim) == getLightType(prim, "Unknown").ok

\* getLightAttribute: "inputs:<attr>" when it has a value, else "<attr>"
getLightAttribute(prim, f) ==
  IF prim.attrs[f].hasInputs
    THEN [HasValue |-> TRUE, val |-> prim.attrs[f].inputs]
    ELSE [HasValue |-> prim.attrs[f].hasPlain, val |-> prim.attrs[f].plain]

\* val.UncheckedGet<type>()
UncheckedGet(f, v) ==
  IF f \in VectorFields THEN [i \in 1..3 |-> RatOf(v[i])] ELSE v

\* WRITE_CONSTANT_DESERIALIZER for every field
DeserializeConstants(r, prim) ==
  [k \in DOMAIN r |->
     IF k \in Fields /\ getLightAttribute(prim, k).HasValue
       THEN UncheckedGet(k, getLightAttribute(prim, k).val)
       ELSE IF k = "m_dirty"
         THEN r.m_dirty \cup {f \in Fields : getLightAttribute(prim, f).HasValue}
         ELSE r[k]]

deserialize(r, prim) ==
  LET a == DeserializeConstants(r, prim)
      b == IF "ConeAngleRadians" \in a.m_dirty
             THEN [a EXCEPT !.ConeAngleRadians = DegToRad(@)] ELSE a
      c == IF "AngleRadians" \in b.m_dirty
             THEN [b EXCEPT !.AngleRadians = DegToRad(@)] ELSE b
  IN IF prim.specifier = "Def" THEN [c EXCEPT !.m_dirty = m_allDirty] ELSE c

----------------------------------------------------------------------------
(* The transform *)

\* no pLocalToRoot
NoTransform == [present |-> FALSE]

\* a GfMatrix4f: its three axis rows and its translation row
Transform(rows, t) == [present |-> TRUE, rows |-> rows, t |-> t]

GetRow3(m, i) == m.rows[i]

Column3(m, j) == <<m.rows[1][j], m.rows[2][j], m.rows[3][j]>>

\* GfVec3f::Normalize: the length, and the vector divided by max(length, eps)
Normalize(v) ==
  LET len == Sqrt(Dot(v, v))
  IN [length |-> len, vec |-> Dir(v, IF len > 0 THEN len ELSE 1)]

\* sanitizeSingularity: the fallback for the zero vector
sanitizeSingularity(a, fallback) == IF IsZeroDir(a) THEN Dir(fallback, 1) ELSE a

\* safeNormalize: the normalized vector, the fallback for the zero vector
safeNormalize(v, fallback) ==
  IF v = <<0, 0, 0>> THEN Dir(fallback, 1) ELSE Normalize(v).vec

\* NegateZ for Sphere only
NegateZ_SphereOnly(lightType) == lightType = "Sphere"

\* the test of the z negation of extractTransform
NegateZ(lightType) == lightType = "Sphere" \/ lightType = "Unknown"

FlipAxis(scale, axis) == IF scale < 0 THEN NegDir(axis) ELSE axis

FlipScale(scale) == IF scale < 0 THEN 0 - scale ELSE scale

\* the asserts at the end of extractTransform
TransformAsserts(r) ==
  /\ IsUnit(r.m_xAxis) /\ IsUnit(r.m_yAxis) /\ IsUnit(r.m_zAxis)
  /\ r.m_xScale > 0 /\ r.m_yScale > 0 /\ r.m_zScale > 0

\* extractTransform without the return for a null pLocalToRoot: the transform
\* bit is set whether or not there is a transform
extractTransform_NoNullReturn(r, m) ==
  IF ~ m.present THEN [r EXCEPT !.m_dirty = @ \cup {"Transform"}] ELSE
  LET x == Normalize(GetRow3(m, 1))
      y == Normalize(GetRow3(m, 2))
      z == Normalize(GetRow3(m, 3))
      xAxis == sanitizeSingularity(x.vec, <<1, 0, 0>>)
      yAxis == sanitizeSingularity(y.vec, <<0, 1, 0>>)
      zAxis0 == sanitizeSingularity(z.vec, <<0, 0, 1>>)
      zAxis == IF NegateZ(r.m_lightType) THEN NegDir(zAxis0) ELSE zAxis0
  IN [r EXCEPT !.m_xScale = FlipScale(x.length),
               !.m_yScale = FlipScale(y.length),
               !.m_zScale = FlipScale(z.length),
               !.m_position = m.t,
               !.m_xAxis = FlipAxis(x.length, xAxis),
               !.m_yAxis = FlipAxis(y.length, yAxis),
               !.m_zAxis = FlipAxis(z.length, zAxis),
               !.m_dirty = @ \cup {"Transform"}]

extractTransform(r, m) ==
  IF ~ m.present THEN r ELSE
  LET x == Normalize(GetRow3(m, 1))
      y == Normalize(GetRow3(m, 2))
      z == Normalize(GetRow3(m, 3))
      xAxis == sanitizeSingularity(x.vec, <<1, 0, 0>>)
      yAxis == sanitizeSingularity(y.vec, <<0, 1, 0>>)
      zAxis0 == sanitizeSingularity(z.vec, <<0, 0, 1>>)
      zAxis == IF NegateZ(r.m_lightType) THEN NegDir(zAxis0) ELSE zAxis0
  IN [r EXCEPT !.m_xScale = FlipScale(x.length),
               !.m_yScale = FlipScale(y.length),
               !.m_zScale = FlipScale(z.length),
               !.m_position = m.t,
               !.m_xAxis = FlipAxis(x.length, xAxis),
               !.m_yAxis = FlipAxis(y.length, yAxis),
               !.m_zAxis = FlipAxis(z.length, zAxis),
               !.m_dirty = @ \cup {"Transform"}]

\* LightData(lightPrim, pLocalToRoot, isOverrideLight, absoluteTransform)
LightDataFromPrim(prim, m, isOverrideLight, absoluteTransform) ==
  LET r0 == [DefaultLightData EXCEPT
               !.m_lightType = getLightType(prim, "Unknown").typeOut,
               !.m_isRelativeTransform = ~ absoluteTransform /\ ~ isOverrideLight,
               !.m_isOverrideLight = isOverrideLight]
  IN sanitizeData(extractTransform(deserialize(r0, prim), m))

\* the guard of tryCreate: a column of the upper 3x3 block is the zero vector
HasZeroScaleColumn(m) == \E j \in 1..3 : Column3(m, j) = <<0, 0, 0>>

\* tryCreate(lightPrim, pLocalToRoot, isOverrideLight, absoluteTransform)
tryCreateUsd(prim, m, isOverrideLight, absoluteTransform) ==
  IF ~ isSupportedUsdLight(prim) THEN NoValue
  ELSE IF m.present /\ HasZeroScaleColumn(m) THEN NoValue
  ELSE Some(LightDataFromPrim(prim, m, isOverrideLight, absoluteTransform))

----------------------------------------------------------------------------
(* Hashing *)

\* the hashes are kept to HashModulus values
HashModulus == 65521

HashStep(h, w) == (h * 31 + w + 1) % HashModulus

RECURSIVE HashWords(_, _)
HashWords(words, h) ==
  IF words = <<>> THEN h ELSE HashWords(Tail(words), HashStep(h, Head(words)))

\* XXH64(data, size, seed): the floats of data folded into the seed
XXH64(words, seed) == HashWords(words, HashStep(seed, Len(words)))

\* (XXH64_hash_t) RtLightType::<t>
RtLightTypeValue(t) ==
  CASE t = "Sphere" -> 0 [] t = "Rect" -> 1 [] t = "Disk" -> 2
    [] t = "Cylinder" -> 3 [] t = "Distant" -> 4

\* legacyStableRadius = 4.0f
legacyStableRadius == 4

\* legacyStableHalfAngle = 0.0349f / 2.0f, in 1/100000 radians
legacyStableHalfAngle == 1745

----------------------------------------------------------------------------
(* Shaping *)


\* isShapingEnabled without the focus
isShapingEnabled_NoFocus(r) == r.ConeAngleRadians # DegToRad(180) \/ r.ConeSoftness # 0

isShapingEnabled(r) ==
  r.ConeAngleRadians # DegToRad(180) \/ r.ConeSoftness # 0 \/ r.Focus # 0

\* RtLightShaping(enabled, primaryAxis, cosConeAngle, coneSoftness, focusExponent)
getLightShaping(r, zAxis) ==
  [enabled |-> isShapingEnabled(r),
   primaryAxis |-> zAxis,
   cosConeAngle |-> Cos(r.ConeAngleRadians),
   coneSoftness |-> r.ConeSoftness,
   focusExponent |-> r.Focus]

\* RtLightShaping{}
DefaultLightShaping ==
  [enabled |-> FALSE,
   primaryAxis |-> <<0, 0, 1>>,
   cosConeAngle |-> Cos(2),
   coneSoftness |-> 0,
   focusExponent |-> 0]

\* RtLightShaping::getHash of a shaping whose axis is a raw vector: the
\* members of an enabled shaping folded into 0
ShapingGetHash(s) ==
  IF s.enabled
    THEN XXH64(<<s.primaryAxis[1], s.primaryAxis[2], s.primaryAxis[3],
                 s.cosConeAngle, s.coneSoftness, s.focusExponent>>, 0)
    ELSE 0

----------------------------------------------------------------------------
(* The legacy call: D3DLIGHT9 *)

D3DLIGHT_POINT == 1

D3DLIGHT_SPOT == 2

D3DLIGHT_DIRECTIONAL == 3

\* LightUtils::calculateIntensity(light, radius)
calculateIntensity(light, radius) ==
  Max(light.Diffuse[1], Max(light.Diffuse[2], light.Diffuse[3])) * light.Range + radius

\* x / 2.0f of an angle that is an even number of quarter turns
HalfOf(x) == x \div 2

DirectionalHash(light) ==
  XXH64(<<legacyStableHalfAngle>>,
        XXH64(light.Direction, RtLightTypeValue("Rect")))

createFromDirectional(light, o) ==
  [DefaultLightData EXCEPT
     !.m_lightType = "Distant",
     !.m_zAxis = safeNormalize(light.Direction, <<0, 0, 1>>),
     !.AngleRadians = o.lightConversionDistantLightFixedAngle,
     !.Color = [i \in 1..3 |-> RatOf(light.Diffuse[i])],
     !.Intensity = o.lightConversionDistantLightFixedIntensity,
     !.m_cachedHash = DirectionalHash(light)]

\* the part of createFromPointSpot every Point and Spot light goes through
PointSpotBase(light, o) ==
  LET originalBrightness ==
        Max(light.Diffuse[1], Max(light.Diffuse[2], light.Diffuse[3]))
      radius == o.lightConversionSphereLightFixedRadius * o.sceneScale
  IN [DefaultLightData EXCEPT
        !.m_lightType = "Sphere",
        !.m_position = light.Position,
        !.Radius = radius,
        !.Intensity = calculateIntensity(light, radius),
        !.Color = [i \in 1..3 |-> Rat(light.Diffuse[i], originalBrightness)]]

\* the branch of createFromPointSpot a Spot light takes
SpotShaping(r, light) ==
  [r EXCEPT
     !.m_zAxis = safeNormalize(light.Direction, <<0, 0, 1>>),
     !.ConeAngleRadians = HalfOf(light.Phi),
     !.ConeSoftness = Cos(HalfOf(light.Theta)) - Cos(HalfOf(light.Phi)),
     !.Focus = light.Falloff]


\* PointSpotHash with the record's radius in the place of legacyStableRadius
PointSpotHash_Radius(output, light, originalLightShaping) ==
  LET h1 == XXH64(light.Position, RtLightTypeValue("Sphere"))
      h2 == XXH64(<<output.Radius>>, h1)
  IN XXH64(<<h2>>, ShapingGetHash(originalLightShaping))

\* the hash of createFromPointSpot, from the position and the stable shaping
PointSpotHash(output, light, originalLightShaping) ==
  LET h1 == XXH64(light.Position, RtLightTypeValue("Sphere"))
      h2 == XXH64(<<legacyStableRadius>>, h1)
  IN XXH64(<<h2>>, ShapingGetHash(originalLightShaping))

createFromPointSpot(light, o) ==
  LET base == PointSpotBase(light, o)
      output == IF light.Type = D3DLIGHT_SPOT THEN SpotShaping(base, light) ELSE base
      originalLightShaping ==
        IF light.Type = D3DLIGHT_SPOT
          THEN getLightShaping(output, light.Direction)
          ELSE DefaultLightShaping
  IN [output EXCEPT !.m_cachedHash = PointSpotHash(output, light, originalLightShaping)]


\* IsValidLegacyType with the lower limit off by one
IsValidLegacyType_OffByOne(t) == ~ (t < D3DLIGHT_POINT - 1 \/ t > D3DLIGHT_DIRECTIONAL)

\* the type check of tryCreate(const D3DLIGHT9&)
IsValidLegacyType(t) == ~ (t < D3DLIGHT_POINT \/ t > D3DLIGHT_DIRECTIONAL)

\* tryCreate(const D3DLIGHT9&)
tryCreateLegacy(light, o) ==
  IF ~ IsValidLegacyType(light.Type) THEN NoValue
  ELSE IF light.Type = D3DLIGHT_DIRECTIONAL
    THEN Some(createFromDirectional(light, o))
    ELSE Some(createFromPointSpot(light, o))

----------------------------------------------------------------------------
(* Merging *)


\* MergeField with the test of the dirty bit inverted
MergeField_Inverted(r, input, f) == IF f \in r.m_dirty THEN input[f] ELSE r[f]

\* WRITE_PARAMETER_MERGE for one named field
MergeField(r, input, f) == IF f \notin r.m_dirty THEN input[f] ELSE r[f]


\* MergeGeometry without the test of k_Transform
MergeGeometry_Unconditional(r, input, g) == input[g]

\* the geometry is taken from the input when k_Transform is clear
MergeGeometry(r, input, g) == IF "Transform" \notin r.m_dirty THEN input[g] ELSE r[g]

\* merge(const LightData& input)
mergeLightData(r, input) ==
  [k \in DOMAIN r |->
     IF k \in Fields THEN MergeField(r, input, k)
     ELSE IF k \in GeometryFields THEN MergeGeometry(r, input, k)
     ELSE r[k]]

\* the first part of merge(const D3DLIGHT9&): the fields
MergeLegacyFields(r, light, o) ==
  IF r.m_dirty # m_allDirty /\ tryCreateLegacy(light, o).has_value
    THEN mergeLightData(r, tryCreateLegacy(light, o).value)
    ELSE r

\* the switch of merge(const D3DLIGHT9&): the type an Unknown record takes
\* (the default case falls through to Sphere after an assert(false), which a
\* release build compiles out)
LegacyLightType(t) == IF t = D3DLIGHT_DIRECTIONAL THEN "Distant" ELSE "Sphere"


\* MergeLegacyType without the test for Unknown
MergeLegacyType_Always(r, light) == [r EXCEPT !.m_lightType = LegacyLightType(light.Type)]

\* the second part of merge(const D3DLIGHT9&): the light type
MergeLegacyType(r, light) ==
  IF r.m_lightType = "Unknown"
    THEN [r EXCEPT !.m_lightType = LegacyLightType(light.Type)]
    ELSE r


\* mergeLegacy with the light type merged inside the test of the dirty mask
mergeLegacy_TypeInFastPath(r, light, o) ==
  IF r.m_dirty # m_allDirty
    THEN MergeLegacyType(MergeLegacyFields(r, light, o), light)
    ELSE r

\* merge(const D3DLIGHT9& light)
mergeLegacy(r, light, o) == MergeLegacyType(MergeLegacyFields(r, light, o), light)

----------------------------------------------------------------------------
(* Lowering *)

NoLight == [type |-> "None"]

\* calculateRadiance: the factors of the product
calculateRadiance(r) ==
  [color |-> r.Color,
   intensity |-> r.Intensity,
   exposure |-> r.Exposure,
   temperature |-> IF r.EnableColorTemp # 0 THEN <<"blackbody", r.ColorTemp>> ELSE <<"neutral", 1>>]

\* the case of the switch of toRtLight a light type takes (the default case
\* falls through to Sphere after an assert(false), which a release build
\* compiles out)
LoweredType(lightType) == IF lightType = "Unknown" THEN "Sphere" ELSE lightType

SphereRadiusScale(r) == Max(Max(r.m_xScale, r.m_yScale), r.m_zScale)


\* CylinderRadiusScale with the x scale taken too
CylinderRadiusScale_AllAxes(r) == Max(Max(r.m_xScale, r.m_yScale), r.m_zScale)

CylinderRadiusScale(r) == Max(r.m_yScale, r.m_zScale)

\* m_AngleRadians / 2.0f
DistantHalfAngle(r) == Rat(r.AngleRadians, 2)

\* toRtLight(originalLight): originalLight is NoLight or the previous RtLight
toRtLight(r, originalLight) ==
  CASE LoweredType(r.m_lightType) = "Sphere" ->
         [type |-> "Sphere",
          position |-> r.m_position,
          radiance |-> calculateRadiance(r),
          radius |-> r.Radius * SphereRadiusScale(r),
          shaping |-> getLightShaping(r, r.m_zAxis),
          hash |-> r.m_cachedHash,
          fromOriginal |-> originalLight.type = "Sphere"]
    [] r.m_lightType = "Rect" ->
         [type |-> "Rect",
          position |-> r.m_position,
          dimensions |-> <<r.Width * r.m_xScale, r.Height * r.m_yScale>>,
          xAxis |-> r.m_xAxis,
          yAxis |-> r.m_yAxis,
          radiance |-> calculateRadiance(r),
          shaping |-> getLightShaping(r, r.m_zAxis)]
    [] r.m_lightType = "Disk" ->
         [type |-> "Disk",
          position |-> r.m_position,
          halfDimensions |-> <<r.Radius * r.m_xScale, r.Radius * r.m_yScale>>,
          xAxis |-> r.m_xAxis,
          yAxis |-> r.m_yAxis,
          radiance |-> calculateRadiance(r),
          shaping |-> getLightShaping(r, r.m_zAxis)]
    [] r.m_lightType = "Cylinder" ->
         [type |-> "Cylinder",
          position |-> r.m_position,
          radius |-> r.Radius * CylinderRadiusScale(r),
          axis |-> r.m_xAxis,
          length |-> r.Length * r.m_xScale,
          radiance |-> calculateRadiance(r)]
    [] r.m_lightType = "Distant" ->
         [type |-> "Distant",
          direction |-> r.m_zAxis,
          halfAngle |-> DistantHalfAngle(r),
          radiance |-> calculateRadiance(r),
          hash |-> r.m_cachedHash]

----------------------------------------------------------------------------
(* The inputs the operations are run on *)

FieldIndex ==
  [Color |-> 0, Intensity |-> 1, Exposure |-> 2, Radius |-> 3, Width |-> 4,
   Height |-> 5, Length |-> 6, AngleRadians |-> 7, EnableColorTemp |-> 8,
   ColorTemp |-> 9, ConeAngleRadians |-> 10, ConeSoftness |-> 11, Focus |-> 12]

\* a number of -1..MaxVal, different for neighbouring fields
SampleNumber(k) == (k % (MaxVal + 2)) - 1

\* the value a prim authors for field f: of the field's USD type, angles in degrees
AuthoredValue(f, seed) ==
  LET v == SampleNumber(seed + FieldIndex[f])
  IN CASE f \in VectorFields -> <<v, SampleNumber(seed + 1), SampleNumber(seed + 2)>>
       [] f \in DegreeFields -> v * DegreesPerQuarterTurn
       [] f = "EnableColorTemp" -> v % 2
       [] OTHER -> v

NoAttribute == [hasInputs |-> FALSE, inputs |-> 0, hasPlain |-> FALSE, plain |-> 0]

\* the attributes of a prim that authors the fields of A under the names of kind
Attributes(A, kind, seed) ==
  [f \in Fields |->
     IF f \notin A THEN [NoAttribute EXCEPT !.inputs = AuthoredValue(f, 0),
                                            !.plain = AuthoredValue(f, 0)]
     ELSE [hasInputs |-> kind \in {"inputs", "both"},
           inputs |-> AuthoredValue(f, seed),
           hasPlain |-> kind \in {"plain", "both"},
           plain |-> AuthoredValue(f, IF kind = "both" THEN seed + 1 ELSE seed)]]

Prim(schema, path, specifier, attrs) ==
  [schema |-> schema, path |-> path, specifier |-> specifier, attrs |-> attrs]

SixteenDigits ==
  <<"0", "1", "2", "3", "4", "5", "6", "7", "8", "9", "A", "b", "C", "d", "E", "f">>

LightPath(dirs, prefix, rest) == [dirs |-> dirs, prefix |-> prefix, rest |-> rest]

CapturedLightPath == LightPath(<<"RootNode", "lights">>, "light_", SixteenDigits)

OtherPaths ==
  {LightPath(<<"RootNode", "lights">>, "light_", Tail(SixteenDigits)),
   LightPath(<<"RootNode", "lights">>, "light_", SixteenDigits \o <<"0">>),
   LightPath(<<"RootNode", "lights">>, "light_", Tail(SixteenDigits) \o <<"G">>),
   LightPath(<<"RootNode", "lights">>, "mesh_", SixteenDigits),
   LightPath(<<"RootNode", "meshes">>, "light_", SixteenDigits),
   LightPath(<<"RootNode", "lights", "group">>, "light_", SixteenDigits)}

SomeFields == {"Color", "Radius", "Width", "AngleRadians", "ConeSoftness"}

\* the attribute sets of the prims: nothing, some fields, every field
AttributeSamples ==
  {Attributes({}, "inputs", 0),
   Attributes(SomeFields, "plain", 1),
   Attributes(Fields, "both", 2),
   Attributes(Fields \ SomeFields, "inputs", MaxVal + 1)}

\* the rows of the sampled transforms: every length is an integer
RowSamples ==
  {<<0, 0, 0>>, <<1, 2, 2>>, <<0 - 2, 0 - 1, 2>>}
  \cup {Scale(k, e) : k \in 1..MaxScale, e \in {<<1, 0, 0>>, <<0, 1, 0>>, <<0, 0, 1>>}}
  \cup {Scale(0 - MaxScale, e) : e \in {<<1, 0, 0>>, <<0, 1, 0>>, <<0, 0, 1>>}}

TransformSamples ==
  {NoTransform} \cup
  {Transform(<<a, b, c>>, <<1, 2, 3>>) : a \in RowSamples, b \in RowSamples, c \in RowSamples}

\* the few transforms of the merge runs
MergeTransforms ==
  {NoTransform, Transform(<<<<0, 2, 0>>, <<1, 0, 0>>, <<1, 2, 2>>>>, <<1, 2, 3>>)}

D3DLight(type, position, direction, diffuse, range, falloff, theta, phi) ==
  [Type |-> type, Position |-> position, Direction |-> direction, Diffuse |-> diffuse,
   Range |-> range, Falloff |-> falloff, Theta |-> theta, Phi |-> phi]

\* light.Type: the three D3DLIGHTTYPE values and one below and one above them
LegacyTypes == (D3DLIGHT_POINT - 1)..(D3DLIGHT_DIRECTIONAL + 1)

\* the cone angles of a call, in quarter turns (even, so that half of one is exact)
ConeSamples == {0, 2, 4}

FalloffSamples == {0 - 1, 1}

RangeSamples == {1, 2}

DiffuseSamples == {<<2, 1, 0>>, <<0, 0, 0>>, <<0 - 1, 0 - 2, 0 - 2>>}

DirectionSamples == {<<0, 0, 0>>, <<0, 0, 2>>, <<1, 2, 2>>}

PositionSamples == {<<1, 2, 3>>, <<0, 0, 0>>}

\* the calls of the merge runs
MergeCalls ==
  {D3DLight(t, <<1, 2, 3>>, <<0, 0, 2>>, <<2, 1, 0>>, 2, 1, 0, 2) : t \in LegacyTypes}
  \cup {D3DLight(t, <<0, 0, 0>>, <<0, 0, 0>>, <<0, 0, 0>>, 1, 0 - 1, 4, 4) : t \in LegacyTypes}

\* the calls of the conversion runs
AllCalls ==
  {D3DLight(t, p, d, c, rg, f, th, ph) :
     t \in LegacyTypes, p \in PositionSamples, d \in DirectionSamples,
     c \in DiffuseSamples, rg \in RangeSamples, f \in FalloffSamples,
     th \in ConeSamples \ {4}, ph \in ConeSamples}

Options(radius, sceneScale, angle, intensity) ==
  [lightConversionSphereLightFixedRadius |-> radius,
   sceneScale |-> sceneScale,
   lightConversionDistantLightFixedAngle |-> angle,
   lightConversionDistantLightFixedIntensity |-> intensity]

DefaultOptions == Options(1, 1, 0, 1)

OptionSamples ==
  {DefaultOptions, Options(2, 1, 0, 1), Options(1, 2, 0, 1), Options(1, 1, 2, 1),
   Options(1, 1, 0, 3)}

----------------------------------------------------------------------------
(* The operations *)

\* what a record was built with: the transform and the light type it had then
BuiltAs(m, made) ==
  [transform |-> m,
   lightType |-> IF made.has_value THEN made.value.m_lightType ELSE "None"]

NotYetBuilt == BuiltAs(NoTransform, NoValue)

Init ==
  /\ target = NoValue
  /\ out = NoLight
  /\ opts = DefaultOptions
  /\ hist = [op |-> "none", pre |-> NoValue, arg |-> <<>>, built |-> NotYetBuilt]

\* no record has been built yet
NotBuilt == hist.op \in {"none", "setOptions"} /\ ~ target.has_value

\* an option of the conversion is changed
SetOptions ==
  /\ \E o \in OptionSamples : o # opts /\ opts' = o
  /\ hist' = [op |-> "setOptions", pre |-> NoValue, arg |-> <<>>, built |-> hist.built]
  /\ UNCHANGED <<target, out>>

\* target = LightData::tryCreate(lightPrim, pLocalToRoot, isOverrideLight, absoluteTransform)
CreateFromPrim(prims, transforms, flags) ==
  /\ NotBuilt
  /\ \E prim \in prims, m \in transforms, isOverrideLight \in flags, absoluteTransform \in flags :
       /\ target' = tryCreateUsd(prim, m, isOverrideLight, absoluteTransform)
       /\ hist' = [op |-> "tryCreateUsd", pre |-> NoValue,
                   arg |-> [prim |-> prim, pLocalToRoot |-> m],
                   built |-> BuiltAs(m, tryCreateUsd(prim, m, isOverrideLight, absoluteTransform))]
  /\ out' = NoLight
  /\ UNCHANGED opts

\* target = LightData::tryCreate(light)
CreateFromLegacy(calls) ==
  /\ NotBuilt
  /\ \E light \in calls :
       /\ target' = tryCreateLegacy(light, opts)
       /\ hist' = [op |-> "tryCreateLegacy", pre |-> NoValue, arg |-> light,
                   built |-> BuiltAs(NoTransform, tryCreateLegacy(light, opts))]
  /\ out' = NoLight
  /\ UNCHANGED opts

\* target.merge(light)
MergeLegacy(calls) ==
  /\ target.has_value
  /\ \E light \in calls :
       /\ target' = Some(mergeLegacy(target.value, light, opts))
       /\ hist' = [op |-> "mergeLegacy", pre |-> target, arg |-> light,
                   built |-> hist.built]
  /\ out' = NoLight
  /\ UNCHANGED opts

\* target.merge(input), the input a record built from a call or from a prim
MergeLightData(inputs) ==
  /\ target.has_value
  /\ \E input \in inputs :
       /\ input.has_value
       /\ target' = Some(mergeLightData(target.value, input.value))
       /\ hist' = [op |-> "mergeLightData", pre |-> target, arg |-> input.value,
                   built |-> hist.built]
  /\ out' = NoLight
  /\ UNCHANGED opts

\* out = target.toRtLight(originalLight), originalLight null or the light of
\* the frame before
Lower ==
  /\ target.has_value
  /\ \E originalLight \in {NoLight, out} :
       /\ out' = toRtLight(target.value, originalLight)
       /\ hist' = [op |-> "toRtLight", pre |-> target,
                   arg |-> [originalLight |-> originalLight, previous |-> out],
                   built |-> hist.built]
  /\ UNCHANGED <<target, opts>>

----------------------------------------------------------------------------
(* Specifications *)

\* the prims, the calls and the records of the merge runs
MergePrims ==
  {Prim(s, p, d, a) :
     s \in {"SphereLight", "DistantLight", "Xform"},
     p \in {CapturedLightPath, LightPath(<<"RootNode", "meshes">>, "light_", SixteenDigits)},
     d \in {"Def", "Over"},
     a \in AttributeSamples \ {Attributes(Fields \ SomeFields, "inputs", MaxVal + 1)}}

MergeInputs ==
  {tryCreateLegacy(light, DefaultOptions) : light \in MergeCalls}
  \cup {tryCreateUsd(Prim(s, CapturedLightPath, "Over", a), m, FALSE, FALSE) :
          s \in {"RectLight", "Xform"},
          a \in {Attributes(Fields, "both", 2),
                 Attributes(Fields \ SomeFields, "inputs", MaxVal + 1)},
          m \in MergeTransforms}

\* a light's life: built from a prim or a call, merged, lowered
Next ==
  \/ CreateFromPrim(MergePrims, MergeTransforms, BOOLEAN)
  \/ CreateFromLegacy(MergeCalls)
  \/ MergeLegacy(MergeCalls)
  \/ MergeLightData(MergeInputs)
  \/ Lower

Spec == Init /\ [][Next]_vars

\* the prims of the type resolution: every schema at every path
ResolvePrims ==
  {Prim(s, p, d, Attributes(SomeFields, "plain", 1)) :
     s \in Schemas, p \in {CapturedLightPath} \cup OtherPaths, d \in {"Def", "Over"}}

\* the prims of the transform runs: every schema, two sets of attributes
TransformPrims ==
  {Prim(s, CapturedLightPath, "Over", a) :
     s \in Schemas,
     a \in {Attributes(Fields, "inputs", 1), Attributes(Fields, "both", 3)}}

\* lights built from prims and lowered
NextAuthored ==
  \/ CreateFromPrim(ResolvePrims, MergeTransforms, BOOLEAN)
  \/ CreateFromPrim(TransformPrims, TransformSamples, {FALSE})
  \/ Lower

SpecAuthored == Init /\ [][NextAuthored]_vars

\* lights built from calls under any options, and lowered
NextLegacy ==
  \/ NotBuilt /\ SetOptions
  \/ CreateFromLegacy(AllCalls)
  \/ Lower

SpecLegacy == Init /\ [][NextLegacy]_vars

----------------------------------------------------------------------------
(* The claims *)

OwnedFields == Fields \cup GeometryFields

\* the dirty flag that owns a named field or a field of the geometry
FlagOf(k) == IF k \in GeometryFields THEN "Transform" ELSE k

\* C1: merge(target, source) of two records leaves every named field and the
\* geometry whose dirty bit is set in target as it was, gives every field whose
\* bit is clear the source's value, and leaves target's dirty mask, its two
\* provenance flags and its stable hash as they were.
C1_MergeFillsGaps ==
  hist.op = "mergeLightData" =>
    LET t == hist.pre.value
        s == hist.arg
        r == target.value
    IN /\ \A k \in OwnedFields : r[k] = IF FlagOf(k) \in t.m_dirty THEN t[k] ELSE s[k]
       /\ r.m_dirty = t.m_dirty
       /\ r.m_isRelativeTransform = t.m_isRelativeTransform
       /\ r.m_isOverrideLight = t.m_isOverrideLight
       /\ r.m_cachedHash = t.m_cachedHash

\* a merge into a record with set and clear bits, from a source that differs
\* from it on a field of each kind, on the geometry, a flag and the hash
C1_Witness ==
  /\ hist.op = "mergeLightData"
  /\ LET t == hist.pre.value
         s == hist.arg
     IN /\ \E f \in Fields : f \in t.m_dirty /\ s[f] # t[f]
        /\ \E f \in Fields : f \notin t.m_dirty /\ s[f] # t[f]
        /\ "Transform" \in t.m_dirty /\ s.m_zAxis # t.m_zAxis
        /\ s.m_cachedHash # t.m_cachedHash
        /\ s.m_isRelativeTransform # t.m_isRelativeTransform
        /\ s.m_dirty # t.m_dirty

\* C2: merging a legacy call or a record into a record whose dirty mask is
\* m_allDirty changes no named field and no field of the geometry.
C2_FullyDefinedUnchanged ==
  (hist.op \in {"mergeLightData", "mergeLegacy"} /\ hist.pre.value.m_dirty = m_allDirty) =>
    \A k \in OwnedFields : target.value[k] = hist.pre.value[k]

\* a record is merged into a fully defined record that differs from it on
\* named fields and on the geometry
C2_Witness ==
  /\ hist.op = "mergeLightData"
  /\ hist.pre.value.m_dirty = m_allDirty
  /\ \E f \in Fields : hist.arg[f] # hist.pre.value[f]
  /\ \E g \in GeometryFields : hist.arg[g] # hist.pre.value[g]

\* C3: once a record's light type is concrete, no later operation changes it.
C3_TypeOnlyResolves ==
  [][(target.has_value /\ target.value.m_lightType # "Unknown")
       => (target'.has_value /\ target'.value.m_lightType = target.value.m_lightType)]_vars

\* a Directional call was merged into a record that was Sphere, and it is Sphere
C3_Witness ==
  /\ hist.op = "mergeLegacy"
  /\ hist.arg.Type = D3DLIGHT_DIRECTIONAL
  /\ hist.pre.value.m_lightType = "Sphere"
  /\ hist.pre.value.m_dirty # m_allDirty
  /\ target.value.m_lightType = "Sphere"

\* C4: a record built from a prim with a transform that passes the guard of
\* tryCreate has three unit axes and three strictly positive scales.
C4_SanitizedTransform ==
  (hist.op = "tryCreateUsd" /\ hist.arg.pLocalToRoot.present /\ target.has_value) =>
    TransformAsserts(target.value)

\* the other parameters of a call, and the options, take every sampled value
CallVariants(light, cones, falloffs) ==
  {[light EXCEPT !.Range = rg, !.Falloff = f, !.Theta = th, !.Phi = ph] :
     rg \in RangeSamples, f \in falloffs, th \in cones, ph \in cones}

SameHashFor(calls) ==
  \A l2 \in calls, o2 \in OptionSamples :
    tryCreateLegacy(l2, o2).value.m_cachedHash = target.value.m_cachedHash

\* C5 as claimed: two calls with the same type, position, direction and diffuse
\* color get the same stable hash, whatever their cone angles, falloff and
\* range and whatever the conversion options.
C5_HashOfIdentityOnly ==
  (hist.op = "tryCreateLegacy" /\ target.has_value) =>
    SameHashFor(CallVariants(hist.arg, ConeSamples, FalloffSamples))

\* C5 as amended: two calls with the same type, position, direction and diffuse
\* color, and for Spot calls the same cone angles and falloff, get the same
\* stable hash, whatever their range and the conversion options.
C5_HashOfIdentityAndCone ==
  (hist.op = "tryCreateLegacy" /\ target.has_value) =>
    IF hist.arg.Type = D3DLIGHT_SPOT
      THEN SameHashFor({[hist.arg EXCEPT !.Range = rg] : rg \in RangeSamples})
      ELSE SameHashFor(CallVariants(hist.arg, ConeSamples, FalloffSamples))

\* a Spot light was built under options that are not the default ones, and a
\* call with another range under the default options has its hash
C5_Witness ==
  /\ hist.op = "tryCreateLegacy"
  /\ target.has_value
  /\ hist.arg.Type = D3DLIGHT_SPOT
  /\ opts.lightConversionSphereLightFixedRadius
       # DefaultOptions.lightConversionSphereLightFixedRadius
  /\ \E rg \in RangeSamples :
       /\ rg # hist.arg.Range
       /\ tryCreateLegacy([hist.arg EXCEPT !.Range = rg], DefaultOptions).value.Intensity
            # target.value.Intensity
       /\ tryCreateLegacy([hist.arg EXCEPT !.Range = rg], DefaultOptions).value.m_cachedHash
            = target.value.m_cachedHash

\* C6: tryCreate(light) returns no value exactly when light.Type is none of
\* Point, Spot, Directional; and merging a call of such a type changes no
\* named field and no field of the geometry of the target.
C6_UnsupportedLegacyType ==
  LET supported == {D3DLIGHT_POINT, D3DLIGHT_SPOT, D3DLIGHT_DIRECTIONAL}
  IN /\ hist.op = "tryCreateLegacy" => (target.has_value <=> hist.arg.Type \in supported)
     /\ (hist.op = "mergeLegacy" /\ hist.arg.Type \notin supported) =>
          \A k \in OwnedFields : target.value[k] = hist.pre.value[k]

\* a call of an unsupported type was merged into a record with clear bits,
\* which the same call with type Spot would have changed
C6_Witness ==
  /\ hist.op = "mergeLegacy"
  /\ hist.arg.Type > D3DLIGHT_DIRECTIONAL
  /\ hist.pre.value.m_dirty = {}
  /\ mergeLegacy(hist.pre.value, [hist.arg EXCEPT !.Type = D3DLIGHT_SPOT], opts).Focus
       # hist.pre.value.Focus
  /\ target.value.Focus = hist.pre.value.Focus

\* C7: when a record is lowered, every named field is within its declared range.
C7_FieldsInRangeWhenLowered ==
  hist.op = "toRtLight" => \A f \in Fields : FieldInRange(f, target.value[f])

TypeOfSchema(schema) ==
  CASE schema = "SphereLight" -> "Sphere" [] schema = "RectLight" -> "Rect"
    [] schema = "DiskLight" -> "Disk" [] schema = "CylinderLight" -> "Cylinder"
    [] schema = "DistantLight" -> "Distant"

\* C8: a prim with one of the five light schemas gives a record of that type,
\* at any path; a prim with none of them at a path of the captured lights gives
\* an Unknown record; a prim with none of them at another path gives no record.
C8_TypeResolution ==
  hist.op = "tryCreateUsd" =>
    LET prim == hist.arg.prim
        m == hist.arg.pLocalToRoot
        passes == ~ m.present \/ ~ HasZeroScaleColumn(m)
    IN IF prim.schema # "Xform"
         THEN /\ passes => target.has_value
              /\ target.has_value => target.value.m_lightType = TypeOfSchema(prim.schema)
         ELSE IF prim.path = CapturedLightPath
           THEN /\ passes => target.has_value
                /\ target.has_value => target.value.m_lightType = "Unknown"
           ELSE ~ target.has_value

\* a prim without a light schema at a path of the captured lights gave an
\* Unknown record
C8_Witness ==
  /\ hist.op = "tryCreateUsd"
  /\ hist.arg.prim.schema = "Xform"
  /\ hist.arg.prim.path = CapturedLightPath
  /\ target.has_value
  /\ target.value.m_lightType = "Unknown"

\* C9: the shaping of a lowered light is enabled exactly when the record's
\* cone angle is not 180 degrees, or its softness is not 0, or its focus is not 0.
C9_ShapingEnabled ==
  (hist.op = "toRtLight" /\ out.type \in {"Sphere", "Rect", "Disk"}) =>
    LET r == target.value
    IN out.shaping.enabled <=>
         (r.ConeAngleRadians # 2 \/ r.ConeSoftness # 0 \/ r.Focus # 0)

\* a lowered light whose shaping is enabled by the focus alone
C9_Witness ==
  /\ hist.op = "toRtLight"
  /\ out.type = "Sphere"
  /\ out.shaping.enabled
  /\ target.value.ConeAngleRadians = 2
  /\ target.value.ConeSoftness = 0
  /\ target.value.Focus # 0

\* C10: the light lowered from a record of a concrete type has that type and
\* the scaled sizes of it; lowering leaves the record as it was, and lowering
\* it again with the same original light gives the same light.
C10_Lowering ==
  (hist.op = "toRtLight" /\ target.value.m_lightType # "Unknown") =>
    LET r == target.value
        previous == hist.arg.previous
    IN /\ out.type = r.m_lightType
       /\ out.type = "Sphere" =>
            out.radius = r.Radius * Max(r.m_xScale, Max(r.m_yScale, r.m_zScale))
       /\ out.type = "Rect" =>
            out.dimensions = <<r.Width * r.m_xScale, r.Height * r.m_yScale>>
       /\ out.type = "Disk" =>
            out.halfDimensions = <<r.Radius * r.m_xScale, r.Radius * r.m_yScale>>
       /\ out.type = "Cylinder" =>
            /\ out.radius = r.Radius * Max(r.m_yScale, r.m_zScale)
            /\ out.length = r.Length * r.m_xScale
       /\ out.type = "Distant" =>
            /\ out.halfAngle.d > 0
            /\ 2 * out.halfAngle.n = r.AngleRadians * out.halfAngle.d
            /\ out = toRtLight([r EXCEPT !.m_position = <<0, 0, 0>>, !.m_xScale = 1,
                                         !.m_yScale = 1, !.m_zScale = 1], NoLight)
       /\ target = hist.pre
       /\ (previous.type # "None"
             /\ (out.type = "Sphere" => out.fromOriginal = previous.fromOriginal))
            => out = previous

\* a Cylinder whose x scale is the largest was lowered a second time
C10_Witness ==
  /\ hist.op = "toRtLight"
  /\ out.type = "Cylinder"
  /\ target.value.m_xScale > Max(target.value.m_yScale, target.value.m_zScale)
  /\ target.value.Radius > 0
  /\ target.value.Length > 0
  /\ hist.arg.previous.type = "Cylinder"

\* the i-th canonical basis vector
Basis(i) == [j \in 1..3 |-> IF j = i THEN 1 ELSE 0]

\* the axis and the scale a record keeps for row i of the transform
AxisOf(r, i) == CASE i = 1 -> r.m_xAxis [] i = 2 -> r.m_yAxis [] i = 3 -> r.m_zAxis

ScaleOf(r, i) == CASE i = 1 -> r.m_xScale [] i = 2 -> r.m_yScale [] i = 3 -> r.m_zScale

\* the transform m with row i replaced by the vector v
WithRow(m, i, v) == [m EXCEPT !.rows[i] = v]

\* the axis of row i before the flip of the negative scales: normalized, the
\* fallback for the zero vector, the z axis negated for Sphere and Unknown
UnflippedAxis(r, m, i) ==
  LET a == sanitizeSingularity(Normalize(GetRow3(m, i)).vec, Basis(i))
  IN IF i = 3 /\ NegateZ(r.m_lightType) THEN NegDir(a) ELSE a

\* a record was built from a prim with a transform
BuiltWithTransform ==
  hist.op = "tryCreateUsd" /\ hist.arg.pLocalToRoot.present /\ target.has_value

\* C11: when a row of the transform is the zero vector, the record's axis for
\* that row is the canonical basis vector (the z one negated for Sphere and
\* Unknown), the record has three unit axes and three strictly positive scales,
\* and the other two axes and scales are what they are for the transform with
\* the basis vector in the place of the zero row.
C11_DegenerateAxisFallback ==
  BuiltWithTransform =>
    LET m == hist.arg.pLocalToRoot
        r == target.value
    IN \A i \in 1..3 :
         GetRow3(m, i) = <<0, 0, 0>> =>
           LET other == extractTransform(r, WithRow(m, i, Basis(i)))
           IN /\ AxisOf(r, i) = UnflippedAxis(r, m, i)
              /\ AxisOf(r, i).n \in {Basis(i), Neg(Basis(i))}
              /\ TransformAsserts(r)
              /\ \A j \in (1..3) \ {i} :
                   AxisOf(r, j) = AxisOf(other, j) /\ ScaleOf(r, j) = ScaleOf(other, j)

\* the part of C11 the code keeps: the fallback axis is a unit vector and the
\* other two axes and scales are unaffected
FallbackAxisOnly ==
  BuiltWithTransform =>
    LET m == hist.arg.pLocalToRoot
        r == target.value
    IN \A i \in 1..3 :
         GetRow3(m, i) = <<0, 0, 0>> =>
           LET other == extractTransform(r, WithRow(m, i, Basis(i)))
           IN /\ AxisOf(r, i) = UnflippedAxis(r, m, i)
              /\ AxisOf(r, i).n \in {Basis(i), Neg(Basis(i))}
              /\ IsUnit(r.m_xAxis) /\ IsUnit(r.m_yAxis) /\ IsUnit(r.m_zAxis)
              /\ ScaleOf(r, i) = 0
              /\ \A j \in (1..3) \ {i} :
                   AxisOf(r, j) = AxisOf(other, j) /\ ScaleOf(r, j) = ScaleOf(other, j)

\* C12: a transform whose row i is the i-th basis vector times a negative
\* factor -k gives a record whose scale on that axis is k and whose axis is
\* the negation of the axis computed before the flip.
C12_NegativeScaleFlip ==
  BuiltWithTransform =>
    LET m == hist.arg.pLocalToRoot
        r == target.value
    IN \A i \in 1..3 :
         GetRow3(m, i) = Scale(0 - MaxScale, Basis(i)) =>
           /\ ScaleOf(r, i) = MaxScale
           /\ AxisOf(r, i) = NegDir(UnflippedAxis(r, m, i))

\* what the code does for such a transform: the length of a row is never
\* negative, so no flip is taken and the axis is the one computed before it
FlipNeverTaken ==
  BuiltWithTransform =>
    LET m == hist.arg.pLocalToRoot
        r == target.value
    IN \A i \in 1..3 :
         /\ Normalize(GetRow3(m, i)).length >= 0
         /\ ScaleOf(r, i) = Normalize(GetRow3(m, i)).length
         /\ AxisOf(r, i) = UnflippedAxis(r, m, i)

\* a record was built from a prim without a transform
BuiltWithoutTransform ==
  hist.op = "tryCreateUsd" /\ ~ hist.arg.pLocalToRoot.present /\ target.has_value

\* C13 as claimed: a record built from a prim with no transform has the
\* default position, axes and scales and a clear Transform bit, whatever the
\* prim's specifier.
C13_NoTransformIsNoOp ==
  BuiltWithoutTransform =>
    /\ \A g \in GeometryFields : target.value[g] = DefaultLightData[g]
    /\ "Transform" \notin target.value.m_dirty

\* C13 as amended: a record built from a prim with no transform has the
\* default position, axes and scales; its Transform bit is clear when the
\* prim's specifier is not Def and set when it is Def, deserialize having made
\* the whole mask dirty before extractTransform returns without a change.
C13_NoTransformKeepsGeometry ==
  BuiltWithoutTransform =>
    /\ \A g \in GeometryFields : target.value[g] = DefaultLightData[g]
    /\ "Transform" \in target.value.m_dirty <=> hist.arg.prim.specifier = "Def"
    /\ hist.arg.prim.specifier = "Def" => target.value.m_dirty = m_allDirty
    /\ target.value = sanitizeData(deserialize(
         [DefaultLightData EXCEPT
            !.m_lightType = target.value.m_lightType,
            !.m_isRelativeTransform = target.value.m_isRelativeTransform,
            !.m_isOverrideLight = target.value.m_isOverrideLight],
         hist.arg.prim))

\* a Def prim without a transform gave a record with the default geometry and
\* the Transform bit set
C13_Witness ==
  /\ BuiltWithoutTransform
  /\ hist.arg.prim.specifier = "Def"
  /\ "Transform" \in target.value.m_dirty
  /\ \A g \in GeometryFields : target.value[g] = DefaultLightData[g]

\* an Over prim without a transform gave a record with a clear Transform bit
C13_WitnessOver ==
  /\ BuiltWithoutTransform
  /\ hist.arg.prim.specifier = "Over"
  /\ "Transform" \notin target.value.m_dirty

\* a legacy call was merged into a record whose light type was Unknown
MergedIntoUnknown ==
  hist.op = "mergeLegacy" /\ hist.pre.value.m_lightType = "Unknown"

\* the light type the claim gives a call's type
ResolvedType(t) ==
  CASE t \in {D3DLIGHT_POINT, D3DLIGHT_SPOT} -> "Sphere"
    [] t = D3DLIGHT_DIRECTIONAL -> "Distant"
    [] OTHER -> "Unknown"

\* C14: after a legacy call is merged into a record whose light type is
\* Unknown, the light type is concrete and is the one of the call's type
\* (Point or Spot: Sphere; Directional: Distant), whatever the target's dirty
\* mask; and from a merge of a legacy call on, the record's light type is
\* never Unknown, so it is not Unknown at any later lowering.
C14_LegacyMergeResolvesType ==
  [](/\ MergedIntoUnknown =>
          /\ target.value.m_lightType # "Unknown"
          /\ ResolvedType(hist.arg.Type) # "Unknown" =>
               target.value.m_lightType = ResolvedType(hist.arg.Type)
     /\ hist.op = "mergeLegacy" =>
          [](target.has_value /\ target.value.m_lightType # "Unknown"
               /\ (hist.op = "toRtLight" => out.type = target.value.m_lightType)))

\* a Directional call was merged into an Unknown record whose dirty mask is
\* m_allDirty: the fields are as they were and the light type is Distant
C14_Witness ==
  /\ MergedIntoUnknown
  /\ hist.pre.value.m_dirty = m_allDirty
  /\ hist.arg.Type = D3DLIGHT_DIRECTIONAL
  /\ \A k \in OwnedFields : target.value[k] = hist.pre.value[k]
  /\ target.value.m_lightType = "Distant"

LightTypes == {"Unknown", "Sphere", "Rect", "Disk", "Cylinder", "Distant"}

\* the normalized z row of a transform, the fallback for the zero row
TransformZAxis(m) == sanitizeSingularity(Normalize(GetRow3(m, 3)).vec, <<0, 0, 1>>)

\* C15 as claimed: a record built with a transform, whose Transform bit is
\* set, has when it is lowered the negated normalized z row of the transform
\* as its zAxis when its light type is Sphere, and the un-negated one when its
\* light type is Rect, Disk, Cylinder or Distant.
C15_NegationFollowsFinalType ==
  (hist.op = "toRtLight" /\ hist.built.transform.present
     /\ "Transform" \in target.value.m_dirty) =>
    LET r == target.value
        m == hist.built.transform
    IN /\ r.m_lightType = "Sphere" => r.m_zAxis = NegDir(TransformZAxis(m))
       /\ r.m_lightType \in {"Rect", "Disk", "Cylinder", "Distant"} =>
            r.m_zAxis = TransformZAxis(m)

\* C15 as amended: the z negation is tied to the light type the record is
\* built with. A record built with a transform as Sphere or Unknown keeps the
\* negated normalized z row as its zAxis, one built as Rect, Disk, Cylinder or
\* Distant the un-negated one, through every later merge and lowering; its
\* light type stays the built one or, built Unknown, is resolved by a legacy
\* call, so a Distant light resolved from Unknown is lowered with the negated
\* z row as its direction.
C15_NegationFollowsBuiltType ==
  (target.has_value /\ hist.built.transform.present) =>
    LET r == target.value
        t == hist.built.lightType
        m == hist.built.transform
        z == IF t \in {"Sphere", "Unknown"}
               THEN NegDir(TransformZAxis(m)) ELSE TransformZAxis(m)
    IN /\ t \in LightTypes
       /\ "Transform" \in r.m_dirty
       /\ r.m_zAxis = z
       /\ r.m_lightType = t \/ (t = "Unknown" /\ r.m_lightType \in {"Sphere", "Distant"})
       /\ (hist.op = "toRtLight" /\ out.type = "Sphere") => out.shaping.primaryAxis = z
       /\ (hist.op = "toRtLight" /\ out.type = "Distant") => out.direction = z

\* a record built as Unknown with a transform and resolved to Distant by a
\* Directional call was lowered: the light's direction is the negated z row
C15_Witness ==
  /\ hist.op = "toRtLight"
  /\ hist.built.transform.present
  /\ hist.built.lightType = "Unknown"
  /\ out.type = "Distant"
  /\ target.value.m_lightType = "Distant"
  /\ "Transform" \in target.value.m_dirty
  /\ out.direction = NegDir(TransformZAxis(hist.built.transform))

====
